---- MODULE Spec2Model ----
(***************************************************************************)
(* Model of atest/run_atests.py, the launcher of Robot Framework's         *)
(* acceptance tests: CLI entry point, interpreter resolution, directory    *)
(* preparation, argument assembly and the synchronous child process.       *)
(*                                                                         *)
(* A Python str is a sequence of one-character strings, so that strip,     *)
(* format, splitlines, split(' ', 1), lower, replace, join and normpath    *)
(* are computed character by character as the library computes them.       *)
(* The host is a POSIX system (os.name == 'posix').                        *)
(***************************************************************************)
EXTENDS Integers, Sequences, FiniteSets, TLC

(***************************************************************************)
(* Bounds of the explored inputs.                                          *)
(***************************************************************************)
MaxExtra == 2        \* caller-supplied arguments after the interpreter
MaxExcludes == 2     \* exclusion tags of a resolved interpreter

(***************************************************************************)
(* String literals.                                                        *)
(***************************************************************************)
OptHelp == <<"-","-","h","e","l","p">>
OptExclude == <<"-","-","e","x","c","l","u","d","e">>
OptTest == <<"-","-","t","e","s","t">>
DataSource == <<"a"," ","b">>
ScriptFile == <<"/","m","y"," ","r","f","/","a","t","e","s","t","/","r","u","n","_","a","t","e","s","t","s",".","p","y">>
SysExecutable == <<"/","u","s","r","/","b","i","n","/","p","y","t","h","o","n">>
TempRoot == <<"/","t","m","p">>
TokPython == <<"p","y","t","h","o","n">>
TokStandalone == <<"s","t","a","n","d","a","l","o","n","e">>
TokUnknown == <<"n","o","s","u","c","h">>
JarPath == <<"/","m","y"," ","r","f","/","d","i","s","t","/","r","f",".","j","a","r">>
TagA == <<"n","o","-","c","i">>
TagB == <<"n","o"," ","j","a","r">>

Whitespace == {" ", "\n", "\t", "\r"}

(***************************************************************************)
(* str methods.                                                            *)
(***************************************************************************)
Min(S) == CHOOSE i \in S : \A j \in S : i <= j

Max(S) == CHOOSE i \in S : \A j \in S : i >= j

\* str.strip(): the text between the first and the last non-blank character
Strip(s) ==
    LET solid == {i \in 1..Len(s) : s[i] \notin Whitespace}
    IN IF solid = {} THEN <<>> ELSE SubSeq(s, Min(solid), Max(solid))

\* the index of the first character of s that is in set C, 0 when none is
FindAny(s, C) ==
    LET hits == {i \in 1..Len(s) : s[i] \in C}
    IN IF hits = {} THEN 0 ELSE Min(hits)

\* str.find(c) + 1: the index of the first occurrence of c, 0 when absent
Find(s, c) == FindAny(s, {c})

\* str.split(sep): every separator splits, empty parts are kept
RECURSIVE SplitAll(_, _)
SplitAll(s, sep) ==
    LET i == Find(s, sep)
    IN IF i = 0 THEN <<s>>
       ELSE <<SubSeq(s, 1, i - 1)>> \o SplitAll(SubSeq(s, i + 1, Len(s)), sep)

\* str.split(' ', 1): at most one split, at the first space
Split1(s) ==
    LET i == Find(s, " ")
    IN IF i = 0 THEN <<s>>
       ELSE <<SubSeq(s, 1, i - 1), SubSeq(s, i + 1, Len(s))>>

\* str.splitlines(): breaks at \n, \r and \r\n; no empty last line
RECURSIVE SplitLines(_)
SplitLines(s) ==
    LET b == FindAny(s, {"\n", "\r"})
        e == IF b # 0 /\ s[b] = "\r" /\ b < Len(s) /\ s[b + 1] = "\n"
             THEN b + 1 ELSE b
    IN IF s = <<>> THEN <<>>
       ELSE IF b = 0 THEN <<s>>
       ELSE <<SubSeq(s, 1, b - 1)>> \o SplitLines(SubSeq(s, e + 1, Len(s)))

UpperCase == <<"A","B","C","D","E","F","G","H","I","J","K","L","M",
               "N","O","P","Q","R","S","T","U","V","W","X","Y","Z">>
LowerCase == <<"a","b","c","d","e","f","g","h","i","j","k","l","m",
               "n","o","p","q","r","s","t","u","v","w","x","y","z">>

\* str.lower()
Lower(s) ==
    [i \in 1..Len(s) |->
        LET k == Find(UpperCase, s[i])
        IN IF k = 0 THEN s[i] ELSE LowerCase[k]]

\* str.replace(old, new) for one-character old and new
Replace(s, old, new) ==
    [i \in 1..Len(s) |-> IF s[i] = old THEN new ELSE s[i]]

\* sep.join(parts)
RECURSIVE JoinWith(_, _)
JoinWith(parts, sep) ==
    IF parts = <<>> THEN <<>>
    ELSE IF Len(parts) = 1 THEN parts[1]
    ELSE parts[1] \o sep \o JoinWith(Tail(parts), sep)

\* str.format(**fields): a template is a sequence of characters and of
\* replacement fields; each field is replaced by the characters of its value
RECURSIVE FormatRange(_, _, _, _)
FormatRange(template, fields, lo, hi) ==
    IF lo > hi THEN <<>>
    ELSE IF lo = hi
         THEN (IF template[lo] \in DOMAIN fields
               THEN fields[template[lo]] ELSE <<template[lo]>>)
    ELSE LET mid == (lo + hi) \div 2
         IN FormatRange(template, fields, lo, mid)
            \o FormatRange(template, fields, mid + 1, hi)

Format(template, fields) == FormatRange(template, fields, 1, Len(template))

(***************************************************************************)
(* os.path functions (posixpath).                                          *)
(***************************************************************************)
\* os.path.join(a, b)
join(a, b) ==
    IF b # <<>> /\ Head(b) = "/" THEN b
    ELSE IF a = <<>> \/ a[Len(a)] = "/" THEN a \o b
    ELSE a \o <<"/">> \o b

RECURSIVE NormComps(_, _, _)
NormComps(comps, new, rooted) ==
    IF comps = <<>> THEN new
    ELSE LET comp == Head(comps)
             rest == Tail(comps)
         IN IF comp \in {<<>>, <<".">>} THEN NormComps(rest, new, rooted)
            ELSE IF comp # <<".", ".">>
                    \/ (~rooted /\ new = <<>>)
                    \/ (new # <<>> /\ new[Len(new)] = <<".", ".">>)
                 THEN NormComps(rest, Append(new, comp), rooted)
            ELSE IF new # <<>>
                 THEN NormComps(rest, SubSeq(new, 1, Len(new) - 1), rooted)
            ELSE NormComps(rest, new, rooted)

\* os.path.normpath(path)
normpath(path) ==
    IF path = <<>> THEN <<".">>
    ELSE LET rooted == Head(path) = "/"
             slashes == IF ~rooted THEN <<>>
                        ELSE IF Len(path) >= 2 /\ path[2] = "/"
                                /\ ~(Len(path) >= 3 /\ path[3] = "/")
                             THEN <<"/", "/">>
                        ELSE <<"/">>
             body == JoinWith(NormComps(SplitAll(path, "/"), <<>>, rooted),
                              <<"/">>)
             res == slashes \o body
         IN IF res = <<>> THEN <<".">> ELSE res

\* os.path.abspath(path) of a path that is already absolute
abspath(path) == normpath(path)

\* str.rfind(c) + 1: the index of the last occurrence of c, 0 when absent
RFind(s, c) ==
    LET hits == {i \in 1..Len(s) : s[i] = c}
    IN IF hits = {} THEN 0 ELSE Max(hits)

\* os.path.dirname(path)
dirname(path) ==
    LET head == SubSeq(path, 1, RFind(path, "/"))
        solid == {k \in 1..Len(head) : head[k] # "/"}
    IN IF solid # {} THEN SubSeq(head, 1, Max(solid)) ELSE head

\* os.path.exists(path) on the filesystem fs
exists(fs, path) == path \in DOMAIN fs /\ fs[path] # "absent"

(***************************************************************************)
(* Module-level definitions of run_atests.py.                              *)
(***************************************************************************)
CURDIR == dirname(abspath(ScriptFile))

os_name == "posix"

\* dos_to_long(path): only a Windows path in DOS format is converted
dos_to_long(fs, path) ==
    IF ~(os_name = "nt" /\ Find(path, "~") # 0 /\ exists(fs, path))
    THEN path
    ELSE SelectSeq(path, LAMBDA c : c # "~")

\* the text between the triple quotes, before .strip()
ArgumentsText ==
    <<"\n">>
    \o <<"-","-","d","o","c"," ","R","o","b","o","t"," ","F","r","a","m","e","w","o","r","k"," ","a","c","c","e","p","t","a","n","c","e"," ","t","e","s","t","s","\n">>
    \o <<"-","-","m","e","t","a","d","a","t","a"," ","i","n","t","e","r","p","r","e","t","e","r",":","{interpreter.name}"," ","{interpreter.version}"," ","o","n"," ","{interpreter.os}","\n">>
    \o <<"-","-","v","a","r","i","a","b","l","e","f","i","l","e"," ","{variable_file}",";","{interpreter.path}",";","{interpreter.name}",";","{interpreter.version}","\n">>
    \o <<"-","-","p","y","t","h","o","n","p","a","t","h"," ","{pythonpath}","\n">>
    \o <<"-","-","o","u","t","p","u","t","d","i","r"," ","{outputdir}","\n">>
    \o <<"-","-","s","p","l","i","t","l","o","g","\n">>
    \o <<"-","-","c","o","n","s","o","l","e"," ","d","o","t","t","e","d","\n">>
    \o <<"-","-","S","u","i","t","e","S","t","a","t","L","e","v","e","l"," ","3","\n">>
    \o <<"-","-","T","a","g","S","t","a","t","E","x","c","l","u","d","e"," ","n","o","-","*","\n">>

ARGUMENTS == Strip(ArgumentsText)

(***************************************************************************)
(* The collaborators: interpreter.InterpreterFactory and tasks.jar.        *)
(***************************************************************************)
Tags == {TagA, TagB}

RECURSIVE SeqsUpTo(_, _)
SeqsUpTo(S, n) ==
    IF n = 0 THEN {<<>>}
    ELSE LET shorter == SeqsUpTo(S, n - 1)
         IN shorter \cup {Append(q, x) : q \in {r \in shorter : Len(r) = n - 1}, x \in S}

\* the exclusion lists an interpreter may carry: any order, duplicates allowed
ExcludeLists == SeqsUpTo(Tags, MaxExcludes)

\* the tokens InterpreterFactory accepts; any other token is a ValueError
Resolvable == {TokPython, JarPath}

\* InterpreterFactory(token): the descriptor of a resolvable token
InterpreterFactory(token, excludes) ==
    IF token = JarPath
    THEN [name |-> <<"S","t","a","n","d","a","l","o","n","e"," ","J","A","R">>,
          version |-> <<"2",".","7">>,
          os |-> <<"L","i","n","u","x">>,
          path |-> token,
          excludes |-> excludes]
    ELSE [name |-> <<"P","y","t","h","o","n">>,
          version |-> <<"2",".","7",".","1","0">>,
          os |-> <<"L","i","n","u","x">>,
          path |-> token,
          excludes |-> excludes]

Interpreters == {InterpreterFactory(t, e) : t \in Resolvable, e \in ExcludeLists}

(***************************************************************************)
(* _get_directories: the directory names.                                  *)
(***************************************************************************)
SafeName(interp) == Replace(Lower(interp.name), " ", "_")

OutputDirOf(fs, interp) ==
    dos_to_long(fs, join(join(CURDIR, <<"r","e","s","u","l","t","s">>), SafeName(interp)))

TempDirOf(fs, interp) ==
    dos_to_long(fs, join(join(TempRoot, <<"r","o","b","o","t","t","e","s","t","s">>), SafeName(interp)))

\* the directories of all interpreters, the part of the filesystem modelled
Paths ==
    {join(join(CURDIR, <<"r","e","s","u","l","t","s">>), SafeName(i)) : i \in Interpreters}
    \cup {join(join(TempRoot, <<"r","o","b","o","t","t","e","s","t","s">>), SafeName(i)) : i \in Interpreters}

DirStates == {"absent", "empty", "nonempty"}

\* the contents of the directory removed, the directory itself kept
rmtree_contents(fs, path) == [fs EXCEPT ![path] = "empty"]

\* shutil.rmtree(path) that succeeds
rmtree(fs, path) == [fs EXCEPT ![path] = "absent"]

\* os.makedirs(path) that succeeds
makedirs(fs, path) == [fs EXCEPT ![path] = "empty"]

(***************************************************************************)
(* _get_arguments.                                                         *)
(***************************************************************************)
FormatFields(interp, outdir) ==
    [f \in {"{interpreter.name}", "{interpreter.version}", "{interpreter.os}",
            "{interpreter.path}", "{variable_file}", "{pythonpath}",
            "{outputdir}"} |->
        CASE f = "{interpreter.name}" -> interp.name
          [] f = "{interpreter.version}" -> interp.version
          [] f = "{interpreter.os}" -> interp.os
          [] f = "{interpreter.path}" -> interp.path
          [] f = "{variable_file}" ->
                join(CURDIR, <<"i","n","t","e","r","p","r","e","t","e","r",".","p","y">>)
          [] f = "{pythonpath}" ->
                join(CURDIR, <<"r","e","s","o","u","r","c","e","s">>)
          [] f = "{outputdir}" -> outdir]

\* line.split(' '): a split at every space
LinePartsEverySpace(line) == SplitAll(line, " ")

\* for part in line.split(' ', 1): yield part
LineParts(line) == Split1(line)

\* for line in arguments.splitlines(): the parts of every line, in order
RECURSIVE TemplateArgs(_)
TemplateArgs(lines) ==
    IF lines = <<>> THEN <<>>
    ELSE LineParts(Head(lines)) \o TemplateArgs(Tail(lines))

\* the pairs of the distinct tags only: a tag seen before is skipped
RECURSIVE ExcludeArgsUnique(_)
ExcludeArgsUnique(excludes) ==
    IF excludes = <<>> THEN <<>>
    ELSE LET last == excludes[Len(excludes)]
             front == SubSeq(excludes, 1, Len(excludes) - 1)
         IN IF \E i \in 1..Len(front) : front[i] = last
            THEN ExcludeArgsUnique(front)
            ELSE ExcludeArgsUnique(front) \o <<OptExclude, last>>

\* for exclude in interpreter.excludes: yield '--exclude'; yield exclude
RECURSIVE ExcludeArgs(_)
ExcludeArgs(excludes) ==
    IF excludes = <<>> THEN <<>>
    ELSE <<OptExclude, Head(excludes)>> \o ExcludeArgs(Tail(excludes))

FixedArgs(interp, outdir) ==
    TemplateArgs(SplitLines(Format(ARGUMENTS, FormatFields(interp, outdir))))

_get_arguments(interp, outdir) ==
    FixedArgs(interp, outdir) \o ExcludeArgs(interp.excludes)

\* the caller's arguments first: list(arguments) + list(_get_arguments(...))
AtestsArgumentsExtraFirst(interp, outdir, extra) ==
    extra \o _get_arguments(interp, outdir)

\* atests, line 72: list(_get_arguments(...)) + list(arguments)
AtestsArguments(interp, outdir, extra) ==
    _get_arguments(interp, outdir) \o extra

(***************************************************************************)
(* _run: the command, and the exit status of the script.                   *)
(***************************************************************************)
Runner ==
    normpath(join(join(join(join(CURDIR, <<".",".">>), <<"s","r","c">>),
                       <<"r","o","b","o","t">>), <<"r","u","n",".","p","y">>))

\* command = [sys.executable, runner] + args
Command(args) == <<SysExecutable, Runner>> \o args

\* the ways the child can terminate: exit(n), or death by signal n
ChildTerminations ==
    {[kind |-> "exit", n |-> 0], [kind |-> "exit", n |-> 3],
     [kind |-> "exit", n |-> 251],
     [kind |-> "signal", n |-> 2], [kind |-> "signal", n |-> 5]}

\* the status reduced to success or failure
ReturnCodeAsFlag(t) == IF t.kind = "exit" /\ t.n = 0 THEN 0 ELSE 1

\* subprocess.call: the exit status, or minus the signal number
ReturnCode(t) == IF t.kind = "exit" THEN t.n ELSE 0 - t.n

\* sys.exit(rc) with an integer: the status the operating system records
ExitStatus(code) == code % 256

\* rc = 251 of the help branch
HelpRc == 251

\* an error that ends the script with the status of the help branch
ErrorStatusAsHelp == HelpRc

\* sys.exit(err) with an exception object, and an uncaught exception
ErrorStatus == 1

\* the help flag looked for in the first argument only
WantsHelpFirst(args) ==
    IF Len(args) = 1 THEN TRUE ELSE args[2] = OptHelp

\* len(sys.argv) == 1 or '--help' in sys.argv
WantsHelp(args) ==
    Len(args) = 1 \/ \E i \in 1..Len(args) : args[i] = OptHelp

\* print __doc__: the usage text (its "Usage:" line stands for the docstring)
DocText ==
    <<"U","s","a","g","e",":"," "," ","r","u","n","_","a","t","e","s","t","s",".","p","y"," ","i","n","t","e","r","p","r","e","t","e","r"," ","[","o","p","t","i","o","n","s","]"," ","d","a","t","a","s","o","u","r","c","e","(","s",")">>

\* 'Running command:\n%s\n' % ' '.join(command)
RunningText(command) ==
    <<"R","u","n","n","i","n","g"," ","c","o","m","m","a","n","d",":","\n">>
    \o JoinWith(command, <<" ">>) \o <<"\n">>

(***************************************************************************)
(* The state of one invocation of the script, and of the filesystem it     *)
(* finds and leaves.  An invocation starts from any state earlier          *)
(* invocations, or anything else, can have left the directories in.        *)
(***************************************************************************)
VARIABLES
    pc,           \* the position of the script
    argv,         \* sys.argv
    token,        \* atests: `interpreter` while it is a string
    interpreter,  \* atests: `interpreter` once it is a descriptor
    outputdir,    \* atests: outputdir
    tempdir,      \* atests: tempdir
    arguments,    \* atests: arguments
    child,        \* the process started by subprocess.call
    spawned,      \* how many child processes this invocation has started
    sigint,       \* the disposition of SIGINT in the parent
    stdout,       \* what the script has printed
    rc,           \* __main__: rc
    exitcode,     \* the exit status of the script
    failure,      \* the exception that ended the script, if any
    killed_at,    \* where a KeyboardInterrupt hit the script
    fs,           \* the directories under results/ and robottests/
    prior         \* fs as it was when the invocation started

vars == <<pc, argv, token, interpreter, outputdir, tempdir, arguments,
          child, spawned, sigint, stdout, rc, exitcode, failure, killed_at,
          fs, prior>>

NoInterpreter ==
    [name |-> <<>>, version |-> <<>>, os |-> <<>>, path |-> <<>>,
     excludes |-> <<>>]

\* child.state: "none" before the child starts, "running", "interrupted"
\* (running, and SIGINT has reached it), then "exit" or "signal" with the
\* exit status or the number of the signal that ended it
NoChild ==
    [command |-> <<>>, TEMPDIR |-> <<>>, state |-> "none", n |-> 0]

NoCode == 0 - 1

FirstTokens == {TokPython, TokStandalone, TokUnknown, OptHelp}

ExtraTokens == {OptHelp, OptTest, DataSource}

\* the command lines explored: the script alone, or an interpreter token
\* followed by up to MaxExtra further arguments
CommandLines ==
    {<<ScriptFile>>}
    \cup {<<ScriptFile, t>> \o e : t \in FirstTokens, e \in SeqsUpTo(ExtraTokens, MaxExtra)}

\* the filesystems an invocation may find: each directory absent, empty or
\* with contents; an invocation reads and writes the two directories of its
\* own interpreter only, so those of at most one interpreter are populated
PriorFilesystems ==
    {f \in [Paths -> DirStates] :
        \E i \in Interpreters :
            \A q \in Paths :
                q \notin {OutputDirOf(f, i), TempDirOf(f, i)} => f[q] = "absent"}

Init ==
    /\ pc = "idle"
    /\ argv = <<>>
    /\ token = <<>>
    /\ interpreter = NoInterpreter
    /\ outputdir = <<>>
    /\ tempdir = <<>>
    /\ arguments = <<>>
    /\ child = NoChild
    /\ spawned = 0
    /\ sigint = "default"
    /\ stdout = <<>>
    /\ rc = NoCode
    /\ exitcode = NoCode
    /\ failure = "none"
    /\ killed_at = "none"
    /\ fs \in PriorFilesystems
    /\ prior = fs

\* the operating system starts the script with a command line
Start ==
    /\ pc = "idle"
    /\ \E line \in CommandLines : argv' = line
    /\ pc' = "main"
    /\ UNCHANGED <<token, interpreter, outputdir, tempdir, arguments, child,
                   spawned, sigint, stdout, rc, exitcode, failure, killed_at,
                   fs, prior>>

\* the script ends with an exception: uncaught, or given to sys.exit
Raise(exc) ==
    /\ failure' = exc
    /\ exitcode' = ErrorStatus
    /\ pc' = "exited"

\* __main__, lines 126-128 and 131, the help branch: print __doc__;
\* rc = 251; sys.exit(rc)
MainHelp ==
    /\ pc = "main"
    /\ WantsHelp(argv)
    /\ stdout' = Append(stdout, DocText)
    /\ rc' = HelpRc
    /\ exitcode' = ExitStatus(rc')
    /\ pc' = "exited"
    /\ UNCHANGED <<argv, token, interpreter, outputdir, tempdir,
                   arguments, child, spawned, sigint, failure, killed_at, fs,
                   prior>>

\* __main__, the other branch: atests(*sys.argv[1:]) is called
MainAtests ==
    /\ pc = "main"
    /\ ~WantsHelp(argv)
    /\ token' = argv[2]
    /\ arguments' = SubSeq(argv, 3, Len(argv))
    /\ pc' = "atests"
    /\ UNCHANGED <<argv, interpreter, outputdir, tempdir, child,
                   spawned, sigint, stdout, rc, exitcode, failure, killed_at,
                   fs, prior>>

\* atests, lines 65-66: if interpreter == 'standalone': interpreter = jar().
\* jar is tasks.jar, which returns the path of the jar it built, or, when
\* tasks could not be imported, the function of lines 47-48, which raises
AtestsJar ==
    /\ pc = "atests"
    /\ \/ /\ token # TokStandalone
          /\ pc' = "resolve"
          /\ UNCHANGED <<token, failure, exitcode>>
       \/ /\ token = TokStandalone
          /\ token' = JarPath
          /\ pc' = "resolve"
          /\ UNCHANGED <<failure, exitcode>>
       \/ /\ token = TokStandalone
          /\ Raise("RuntimeError")
          /\ UNCHANGED token
    /\ UNCHANGED <<argv, interpreter, outputdir, tempdir, arguments,
                   child, spawned, sigint, stdout, rc, killed_at, fs, prior>>

\* atests: interpreter = InterpreterFactory(interpreter)
AtestsResolve ==
    /\ pc = "resolve"
    /\ token \in Resolvable
    /\ \E excludes \in ExcludeLists :
          interpreter' = InterpreterFactory(token, excludes)
    /\ pc' = "directories"
    /\ UNCHANGED <<argv, token, outputdir, tempdir, arguments, child,
                   spawned, sigint, stdout, rc, exitcode, failure, killed_at,
                   fs, prior>>

\* atests: except ValueError as err: sys.exit(err)
AtestsResolveError ==
    /\ pc = "resolve"
    /\ token \notin Resolvable
    /\ Raise("ValueError")
    /\ UNCHANGED <<argv, token, interpreter, outputdir, tempdir,
                   arguments, child, spawned, sigint, stdout, rc, killed_at,
                   fs, prior>>

\* _get_directories, lines 77-81: the two names; the old output directory
\* is removed
GetDirsOutput ==
    /\ pc = "directories"
    /\ outputdir' = OutputDirOf(fs, interpreter)
    /\ tempdir' = TempDirOf(fs, interpreter)
    /\ fs' = IF exists(fs, outputdir') THEN rmtree(fs, outputdir') ELSE fs
    /\ pc' = "rm_temp"
    /\ UNCHANGED <<argv, token, interpreter, arguments, child,
                   spawned, sigint, stdout, rc, exitcode, failure, killed_at,
                   prior>>

\* _get_directories, lines 82-83: the old temporary directory is removed
GetDirsTemp ==
    /\ pc = "rm_temp"
    /\ fs' = IF exists(fs, tempdir) THEN rmtree(fs, tempdir) ELSE fs
    /\ pc' = "make_temp"
    /\ UNCHANGED <<argv, token, interpreter, outputdir, tempdir,
                   arguments, child, spawned, sigint, stdout, rc, exitcode,
                   failure, killed_at, prior>>

\* _get_directories, lines 84-85: the temporary directory is created
GetDirsMake ==
    /\ pc = "make_temp"
    /\ fs' = makedirs(fs, tempdir)
    /\ pc' = "arguments"
    /\ UNCHANGED <<argv, token, interpreter, outputdir, tempdir,
                   arguments, child, spawned, sigint, stdout, rc, exitcode,
                   failure, killed_at, prior>>

\* an OSError of _get_directories that is swallowed: the script goes on
GetDirsErrorSwallowed ==
    /\ pc \in {"directories", "rm_temp", "make_temp"}
    /\ pc = "directories" =>
          /\ outputdir' = OutputDirOf(fs, interpreter)
          /\ tempdir' = TempDirOf(fs, interpreter)
    /\ pc # "directories" => UNCHANGED <<outputdir, tempdir>>
    /\ pc' = CASE pc = "directories" -> "rm_temp"
              [] pc = "rm_temp" -> "make_temp"
              [] pc = "make_temp" -> "arguments"
    /\ failure' = "OSError"
    /\ UNCHANGED <<argv, token, interpreter, arguments, child, spawned,
                   sigint, stdout, rc, exitcode, killed_at, fs, prior>>

\* what a failed rmtree can leave of a directory
Leftovers(state) ==
    IF state = "nonempty" THEN {"nonempty", "empty"} ELSE {state}

\* shutil.rmtree or os.makedirs raises OSError, which nothing catches:
\* the script ends in _get_directories
GetDirsError ==
    /\ \/ /\ pc = "directories"
          /\ exists(fs, OutputDirOf(fs, interpreter))
          /\ \E left \in Leftovers(fs[OutputDirOf(fs, interpreter)]) :
                fs' = [fs EXCEPT ![OutputDirOf(fs, interpreter)] = left]
       \/ /\ pc = "rm_temp"
          /\ exists(fs, tempdir)
          /\ \E left \in Leftovers(fs[tempdir]) :
                fs' = [fs EXCEPT ![tempdir] = left]
       \/ /\ pc = "make_temp"
          /\ UNCHANGED fs
    /\ Raise("OSError")
    /\ UNCHANGED <<argv, token, interpreter, outputdir, tempdir,
                   arguments, child, spawned, sigint, stdout, rc, killed_at,
                   prior>>

\* atests, line 72: the assembled arguments, then the caller's
AtestsAssemble ==
    /\ pc = "arguments"
    /\ arguments' = AtestsArguments(interpreter, outputdir, arguments)
    /\ pc' = "run"
    /\ UNCHANGED <<argv, token, interpreter, outputdir, tempdir,
                   child, spawned, sigint, stdout, rc, exitcode, failure,
                   killed_at, fs, prior>>

\* the disposition left as it was
signal_kept(old, handler) == old

\* signal.signal(signal.SIGINT, handler): the new disposition
signal_signal(old, handler) == handler

\* _run, lines 102-107: the command and the environment are built, the
\* command is printed, SIGINT is set to SIG_IGN
RunPrepare ==
    /\ pc = "run"
    /\ child' = [child EXCEPT !.command = Command(arguments),
                              !.TEMPDIR = tempdir]
    /\ stdout' = Append(stdout, RunningText(Command(arguments)))
    /\ sigint' = signal_signal(sigint, "ignore")
    /\ pc' = "call"
    /\ UNCHANGED <<argv, token, interpreter, outputdir, tempdir,
                   arguments, spawned, rc, exitcode, failure, killed_at, fs,
                   prior>>

\* _run, line 108: subprocess.call starts the child and waits for it
RunSpawn ==
    /\ pc = "call"
    /\ spawned' = spawned + 1
    /\ child' = [child EXCEPT !.state = "running"]
    /\ pc' = "wait"
    /\ UNCHANGED <<argv, token, interpreter, outputdir, tempdir,
                   arguments, sigint, stdout, rc, exitcode, failure,
                   killed_at, fs, prior>>

\* what the child leaves in the output and the temporary directory: a test
\* run writes its results and temporary files, a child that ends at once
\* (status 251: robot printed its own help or version) writes nothing
ChildEffect(t) ==
    IF t.kind = "exit" /\ t.n = 251
    THEN [out |-> "absent", tmp |-> "empty"]
    ELSE IF t.kind = "signal"
    THEN [out |-> "nonempty", tmp |-> "empty"]
    ELSE [out |-> "nonempty", tmp |-> "nonempty"]

\* the child terminates: subprocess.call returns, _run and atests return
\* its value, __main__ binds it to rc (line 130) and ends with sys.exit(rc)
RunReturn ==
    /\ pc = "wait"
    /\ \E t \in ChildTerminations :
          /\ child' = [child EXCEPT !.state = t.kind, !.n = t.n]
          /\ rc' = ReturnCode(t)
          /\ fs' = [fs EXCEPT ![outputdir] = ChildEffect(t).out,
                              ![tempdir] = ChildEffect(t).tmp]
    /\ exitcode' = ExitStatus(rc')
    /\ pc' = "exited"
    /\ UNCHANGED <<argv, token, interpreter, outputdir, tempdir,
                   arguments, spawned, sigint, stdout, failure, killed_at,
                   prior>>

\* SIGINT reaches the process group while the script runs.  Under the
\* default disposition Python raises KeyboardInterrupt, which nothing
\* catches; under SIG_IGN only a running child sees the signal
Interrupt ==
    /\ pc \notin {"idle", "exited"}
    /\ IF sigint = "default"
       THEN /\ killed_at' = pc
            /\ Raise("KeyboardInterrupt")
            /\ UNCHANGED child
       ELSE /\ pc = "wait"
            /\ child.state = "running"
            /\ child' = [child EXCEPT !.state = "interrupted"]
            /\ UNCHANGED <<killed_at, failure, exitcode, pc>>
    /\ UNCHANGED <<argv, token, interpreter, outputdir, tempdir,
                   arguments, spawned, sigint, stdout, rc, fs, prior>>

Next ==
    \/ Start
    \/ MainHelp
    \/ MainAtests
    \/ AtestsJar
    \/ AtestsResolve
    \/ AtestsResolveError
    \/ GetDirsOutput
    \/ GetDirsTemp
    \/ GetDirsMake
    \/ GetDirsError
    \/ AtestsAssemble
    \/ RunPrepare
    \/ RunSpawn
    \/ RunReturn
    \/ Interrupt

Spec == Init /\ [][Next]_vars

(***************************************************************************)
(* The claims.                                                             *)
(***************************************************************************)
\* the caller's arguments after the interpreter: sys.argv[2:]
Extra == SubSeq(argv, 3, Len(argv))

\* the positions of token x in sequence q
Positions(q, x) == {i \in 1..Len(q) : q[i] = x}

\* no arguments at all, or the help flag somewhere among the arguments
HelpAsked ==
    Len(argv) = 1 \/ \E i \in 2..Len(argv) : argv[i] = OptHelp

HasSpace(str) == \E i \in 1..Len(str) : str[i] = " "

\* C1: the command the child is started with is the executable, the
\* runner, the tokens of the template, one --exclude/tag pair per tag of the
\* descriptor, then the caller's arguments, unchanged and in order
C1_CommandOrder ==
    pc = "wait" =>
        LET cmd == child.command
            fixed == FixedArgs(interpreter, outputdir)
            nfix == Len(fixed)
            nex == Len(interpreter.excludes)
        IN /\ Len(cmd) = 2 + nfix + 2 * nex + Len(Extra)
           /\ cmd[1] = SysExecutable
           /\ cmd[2] = Runner
           /\ SubSeq(cmd, 3, 2 + nfix) = fixed
           /\ \A i \in 1..nex :
                 /\ cmd[2 + nfix + 2 * i - 1] = OptExclude
                 /\ cmd[2 + nfix + 2 * i] = interpreter.excludes[i]
           /\ SubSeq(cmd, 3 + nfix + 2 * nex, Len(cmd)) = Extra

\* a child started with two different caller arguments and with exclusions
C1_Witness ==
    /\ pc = "wait"
    /\ Len(Extra) = 2
    /\ Extra[1] # Extra[2]
    /\ Len(interpreter.excludes) >= 1

\* C2: what _get_arguments produced holds exactly N times the token
\* --exclude, all after the template's tokens, the i-th followed at once by
\* the i-th tag of the descriptor: nothing dropped, merged or reordered
C2_ExcludePairs ==
    pc = "run" =>
        LET produced == SubSeq(arguments, 1, Len(arguments) - Len(Extra))
            n == Len(interpreter.excludes)
            first == Len(produced) - 2 * n
        IN /\ Cardinality(Positions(produced, OptExclude)) = n
           /\ first = Len(FixedArgs(interpreter, outputdir))
           /\ Positions(produced, OptExclude) = {first + 2 * i - 1 : i \in 1..n}
           /\ \A i \in 1..n : produced[first + 2 * i] = interpreter.excludes[i]

\* arguments assembled for a descriptor that carries the same tag twice
C2_Witness ==
    /\ pc = "run"
    /\ Len(interpreter.excludes) = 2
    /\ interpreter.excludes[1] = interpreter.excludes[2]

\* C3: when the child exits with a status, rc and the exit status of the
\* script are that status, and the script did not end with an error
C3_StatusPropagated ==
    (pc = "exited" /\ child.state = "exit") =>
        /\ rc = child.n
        /\ exitcode = child.n
        /\ failure = "none"

\* the child exited with 3 and so did the script
C3_Witness ==
    /\ pc = "exited"
    /\ child.state = "exit"
    /\ child.n = 3
    /\ exitcode = 3

\* C4: with no arguments, or with --help anywhere among them, no child is
\* ever started, and the script, unless interrupted before, prints the usage
\* text and exits with 251
C4_HelpExits251 ==
    (pc # "idle" /\ HelpAsked) =>
        /\ spawned = 0
        /\ child.state = "none"
        /\ pc \in {"main", "exited"}
        /\ (pc = "exited" /\ failure = "none") =>
              /\ stdout = <<DocText>>
              /\ exitcode = 251

\* --help given last, after an interpreter and a data source
C4_Witness ==
    /\ pc = "exited"
    /\ Len(argv) = 4
    /\ argv[2] = TokPython
    /\ argv[4] = OptHelp
    /\ exitcode = 251
    /\ stdout = <<DocText>>

\* C5, as claimed: the script exits with 251 only after printing the usage
\* text, never with the status of a child
C5_Only251FromUsage ==
    (pc = "exited" /\ exitcode = 251) =>
        /\ stdout = <<DocText>>
        /\ spawned = 0

\* C5, amended: the script exits with 251 either after printing the usage
\* text for no arguments or a help flag, without a child, or because its
\* child ended with status 251 or by signal 5 (-5, which is 251 modulo 256)
C5_251FromUsageOrChild ==
    (pc = "exited" /\ exitcode = 251) =>
        \/ /\ spawned = 0
           /\ failure = "none"
           /\ HelpAsked
           /\ stdout = <<DocText>>
        \/ /\ spawned = 1
           /\ \/ child.state = "exit" /\ child.n = 251
              \/ child.state = "signal" /\ child.n = 5

\* a child that exited with 251 made the script exit with 251
C5_Witness ==
    /\ pc = "exited"
    /\ exitcode = 251
    /\ spawned = 1
    /\ child.state = "exit"
    /\ ~HelpAsked

\* C6: when _get_directories has returned and the arguments are about to be
\* assembled, the output directory does not exist and the temporary
\* directory exists and is empty, whatever the directories held before
C6_CleanDirectories ==
    pc = "arguments" =>
        /\ fs[outputdir] = "absent"
        /\ fs[tempdir] = "empty"

\* both directories held contents when the script started
C6_Witness ==
    /\ pc = "arguments"
    /\ prior[outputdir] = "nonempty"
    /\ prior[tempdir] = "nonempty"

\* C7: at most one child per invocation, started only with the interpreter
\* resolved (the jar built for 'standalone') and the directories prepared;
\* after a ValueError, RuntimeError or OSError no child has been started
C7_SpawnOnceAfterSetup ==
    /\ spawned <= 1
    /\ spawned = 1 =>
          /\ failure = "none"
          /\ token \in Resolvable
          /\ interpreter \in Interpreters
          /\ interpreter.path = token
          /\ argv[2] = TokStandalone => token = JarPath
          /\ outputdir = OutputDirOf(fs, interpreter)
          /\ tempdir = TempDirOf(fs, interpreter)
    /\ pc = "wait" =>
          /\ fs[outputdir] = "absent"
          /\ fs[tempdir] = "empty"
    /\ failure \in {"ValueError", "RuntimeError", "OSError"} =>
          /\ pc = "exited"
          /\ spawned = 0
          /\ child.state = "none"

\* the child of a 'standalone' invocation is running
C7_Witness ==
    /\ pc = "wait"
    /\ spawned = 1
    /\ argv[2] = TokStandalone

\* C8: SIGINT is ignored by the parent from before the child starts, while
\* the child runs, and for as long as the parent lives after it
C8_SigintIgnored ==
    /\ pc \in {"call", "wait"} => sigint = "ignore"
    /\ spawned = 1 => sigint = "ignore"
    /\ child.state # "none" => spawned = 1

\* SIGINT arrived while the child was running, and the parent goes on
C8_Witness ==
    /\ pc = "wait"
    /\ child.state = "interrupted"
    /\ sigint = "ignore"
    /\ failure = "none"

\* C9, as claimed: an interrupt never ends the parent in the middle of
\* directory preparation, with an old directory removed and the temporary
\* directory not yet created again
C9_NeverKilledMidSetup ==
    ~ /\ failure = "KeyboardInterrupt"
      /\ killed_at \in {"rm_temp", "make_temp"}

\* C9, amended: an interrupt ends the parent only before _run has set SIGINT
\* to be ignored, that is before any child is started, directory preparation
\* included; an interrupt that arrives while the child runs never ends it
C9_KilledOnlyBeforeRun ==
    /\ failure = "KeyboardInterrupt" =>
          /\ killed_at \in {"main", "atests", "resolve", "directories",
                            "rm_temp", "make_temp", "arguments", "run"}
          /\ spawned = 0
          /\ child.state = "none"
    /\ child.state = "interrupted" =>
          /\ pc = "wait"
          /\ failure = "none"

\* the parent was interrupted with the old temporary directory removed and
\* not yet created again
C9_Witness ==
    /\ pc = "exited"
    /\ failure = "KeyboardInterrupt"
    /\ killed_at = "make_temp"
    /\ prior[tempdir] = "nonempty"
    /\ fs[tempdir] = "absent"

\* C10: every line of the substituted template gives one token when it has
\* no space, and otherwise the flag and the whole remainder, split at the
\* first space only; no token is empty, and the values with spaces (the output
\* directory, the metadata) are single tokens
C10_SplitAtFirstSpace ==
    pc = "run" =>
        LET lines == SplitLines(Format(ARGUMENTS,
                                       FormatFields(interpreter, outputdir)))
        IN /\ \A k \in 1..Len(lines) :
                 LET line == lines[k]
                     parts == LineParts(line)
                 IN /\ Len(parts) <= 2
                    /\ \A j \in 1..Len(parts) : parts[j] # <<>>
                    /\ ~HasSpace(line) => parts = <<line>>
                    /\ HasSpace(line) =>
                          /\ Len(parts) = 2
                          /\ ~HasSpace(parts[1])
                          /\ parts[1] \o <<" ">> \o parts[2] = line
           /\ Len(lines) = 9
           /\ Len(arguments) = 17 + 2 * Len(interpreter.excludes) + Len(Extra)
           /\ arguments[4] = <<"i","n","t","e","r","p","r","e","t","e","r",":">>
                             \o interpreter.name \o <<" ">>
                             \o interpreter.version \o <<" ","o","n"," ">>
                             \o interpreter.os
           /\ arguments[10] = outputdir

\* arguments assembled with spaces in the output directory and in the name
C10_Witness ==
    /\ pc = "run"
    /\ HasSpace(outputdir)
    /\ HasSpace(interpreter.name)
    /\ arguments[10] = outputdir

====
